---- MODULE Spec2Model ----
(***************************************************************************)
(* The distribution contract of backend/models/distributions:             *)
(*   base.py         the pydantic schemas DistributionParameter,          *)
(*                   DistributionInfo and DistributionData                *)
(*   uniform.py      UniformDistribution.get_info / calculate             *)
(*   exponential.py  ExponentialDistribution.get_info / calculate         *)
(*                                                                         *)
(* Every operation is a single call: a behaviour is the idle state         *)
(* followed by one call, whose arguments, outcome and executed statements  *)
(* are the state.                                                          *)
(*                                                                         *)
(* Representation.                                                         *)
(*   float   a fixed-point integer, FScale units to 1.0, or one of the     *)
(*           three non-finite values NaN, PosInf, NegInf.  Arithmetic      *)
(*           rounds down to the unit, as float arithmetic rounds to the    *)
(*           nearest representable value.                                  *)
(*   str     the sequence of its Unicode code points, so that len() is Len *)
(*   list    a sequence                                                    *)
(*   enum    the member's value, a TLA+ string                             *)
(***************************************************************************)
EXTENDS Integers, Sequences, FiniteSets, TLC

(***************************************************************************)
(* Bounds of the model.                                                    *)
(***************************************************************************)
\* units of the fixed-point floats per 1.0
FScale == 1000
\* parameter values offered to the calls: -ParamRange/10 .. ParamRange/10
ParamRange == 1
\* longest list of tags / parameters enumerated element by element
MaxListLen == 2

(***************************************************************************)
(* float                                                                   *)
(***************************************************************************)
PosInf == 2^30
NegInf == -PosInf
NaN == PosInf + 1

\* the decimal literal k/10 (0.1 is Dec(1), 10.0 is Dec(100))
Dec(k) == (k * FScale) \div 10

isnan(v) == v = NaN
isinf(v) == v = PosInf \/ v = NegInf

\* comparisons: every comparison with NaN is false
FLe(u, v) == ~isnan(u) /\ ~isnan(v) /\ u <= v
FLt(u, v) == ~isnan(u) /\ ~isnan(v) /\ u < v
FGe(u, v) == FLe(v, u)
FGt(u, v) == FLt(v, u)

\* product and quotient of two finite fixed-point values
FMul(u, v) == (u * v) \div FScale
FDiv(u, v) == (u * FScale) \div v

(***************************************************************************)
(* str: the literals of uniform.py and exponential.py                      *)
(***************************************************************************)
\* uniform.py:25: 一様分布 (4 characters)
Uniform_name ==
    <<19968, 27096, 20998, 24067>>

\* uniform.py:26: 区間 [a, b] 上で等しい確率密度を持つ連続確率分布。全ての値が等確率で出現します。 (44 characters)
Uniform_description ==
    <<21306, 38291, 32, 91, 97, 44, 32, 98, 93, 32, 19978, 12391, 31561,
    12375, 12356, 30906, 29575, 23494, 24230, 12434, 25345, 12388, 36899,
    32154, 30906, 29575, 20998, 24067, 12290, 20840, 12390, 12398, 20516,
    12364, 31561, 30906, 29575, 12391, 20986, 29694, 12375, 12414, 12377,
    12290>>

\* uniform.py:28: 基本 (2 characters)
Uniform_tag1 ==
    <<22522, 26412>>

\* uniform.py:28: 連続 (2 characters)
Uniform_tag2 ==
    <<36899, 32154>>

\* uniform.py:28: 一様 (2 characters)
Uniform_tag3 ==
    <<19968, 27096>>

\* uniform.py:28: 等確率 (3 characters)
Uniform_tag4 ==
    <<31561, 30906, 29575>>

\* uniform.py:29: 'f(x) = \\begin{cases} \\frac{1}{b-a} & \\text{if } a \\leq x \\leq b \\\\ 0 & \\text{otherwise} \\end{cases}' has 99 characters
Uniform_formula_pdf ==
    <<102, 40, 120, 41, 32, 61, 32, 92, 98, 101, 103, 105, 110, 123, 99, 97,
    115, 101, 115, 125, 32, 92, 102, 114, 97, 99, 123, 49, 125, 123, 98, 45,
    97, 125, 32, 38, 32, 92, 116, 101, 120, 116, 123, 105, 102, 32, 125, 32,
    97, 32, 92, 108, 101, 113, 32, 120, 32, 92, 108, 101, 113, 32, 98, 32,
    92, 92, 32, 48, 32, 38, 32, 92, 116, 101, 120, 116, 123, 111, 116, 104,
    101, 114, 119, 105, 115, 101, 125, 32, 92, 101, 110, 100, 123, 99, 97,
    115, 101, 115, 125>>

\* uniform.py:30: 'F(x) = \\begin{cases} 0 & \\text{if } x < a \\\\ \\frac{x-a}{b-a} & \\text{if } a \\leq x \\leq b \\\\ 1 & \\text{if } x > b \\end{cases}' has 125 characters
Uniform_formula_cdf ==
    <<70, 40, 120, 41, 32, 61, 32, 92, 98, 101, 103, 105, 110, 123, 99, 97,
    115, 101, 115, 125, 32, 48, 32, 38, 32, 92, 116, 101, 120, 116, 123,
    105, 102, 32, 125, 32, 120, 32, 60, 32, 97, 32, 92, 92, 32, 92, 102,
    114, 97, 99, 123, 120, 45, 97, 125, 123, 98, 45, 97, 125, 32, 38, 32,
    92, 116, 101, 120, 116, 123, 105, 102, 32, 125, 32, 97, 32, 92, 108,
    101, 113, 32, 120, 32, 92, 108, 101, 113, 32, 98, 32, 92, 92, 32, 49,
    32, 38, 32, 92, 116, 101, 120, 116, 123, 105, 102, 32, 125, 32, 120, 32,
    62, 32, 98, 32, 92, 101, 110, 100, 123, 99, 97, 115, 101, 115, 125>>

\* uniform.py:33: 'a' has 1 characters
Uniform_a_name ==
    <<97>>

\* uniform.py:34: 下限 (a) (6 characters)
Uniform_a_label ==
    <<19979, 38480, 32, 40, 97, 41>>

\* uniform.py:35: 分布の下限値。この値以上で一様に分布します。 (22 characters)
Uniform_a_description ==
    <<20998, 24067, 12398, 19979, 38480, 20516, 12290, 12371, 12398, 20516,
    20197, 19978, 12391, 19968, 27096, 12395, 20998, 24067, 12375, 12414,
    12377, 12290>>

\* uniform.py:42: 'b' has 1 characters
Uniform_b_name ==
    <<98>>

\* uniform.py:43: 上限 (b) (6 characters)
Uniform_b_label ==
    <<19978, 38480, 32, 40, 98, 41>>

\* uniform.py:44: 分布の上限値。この値以下で一様に分布します。 (22 characters)
Uniform_b_description ==
    <<20998, 24067, 12398, 19978, 38480, 20516, 12290, 12371, 12398, 20516,
    20197, 19979, 12391, 19968, 27096, 12395, 20998, 24067, 12375, 12414,
    12377, 12290>>

\* exponential.py:25: 指数分布 (4 characters)
Exponential_name ==
    <<25351, 25968, 20998, 24067>>

\* exponential.py:26: 待ち時間や寿命を表す連続確率分布。ある事象が発生するまでの時間をモデル化します。 (40 characters)
Exponential_description ==
    <<24453, 12385, 26178, 38291, 12420, 23551, 21629, 12434, 34920, 12377,
    36899, 32154, 30906, 29575, 20998, 24067, 12290, 12354, 12427, 20107,
    35937, 12364, 30330, 29983, 12377, 12427, 12414, 12391, 12398, 26178,
    38291, 12434, 12514, 12487, 12523, 21270, 12375, 12414, 12377, 12290>>

\* exponential.py:28: 基本 (2 characters)
Exponential_tag1 ==
    <<22522, 26412>>

\* exponential.py:28: 連続 (2 characters)
Exponential_tag2 ==
    <<36899, 32154>>

\* exponential.py:28: 指数 (2 characters)
Exponential_tag3 ==
    <<25351, 25968>>

\* exponential.py:28: 待ち時間 (4 characters)
Exponential_tag4 ==
    <<24453, 12385, 26178, 38291>>

\* exponential.py:29: 'f(x) = \\begin{cases} \\lambda e^{-\\lambda x} & \\text{if } x \\geq 0 \\\\ 0 & \\text{otherwise} \\end{cases}' has 101 characters
Exponential_formula_pdf ==
    <<102, 40, 120, 41, 32, 61, 32, 92, 98, 101, 103, 105, 110, 123, 99, 97,
    115, 101, 115, 125, 32, 92, 108, 97, 109, 98, 100, 97, 32, 101, 94, 123,
    45, 92, 108, 97, 109, 98, 100, 97, 32, 120, 125, 32, 38, 32, 92, 116,
    101, 120, 116, 123, 105, 102, 32, 125, 32, 120, 32, 92, 103, 101, 113,
    32, 48, 32, 92, 92, 32, 48, 32, 38, 32, 92, 116, 101, 120, 116, 123,
    111, 116, 104, 101, 114, 119, 105, 115, 101, 125, 32, 92, 101, 110, 100,
    123, 99, 97, 115, 101, 115, 125>>

\* exponential.py:30: 'F(x) = \\begin{cases} 0 & \\text{if } x < 0 \\\\ 1 - e^{-\\lambda x} & \\text{if } x \\geq 0 \\end{cases}' has 97 characters
Exponential_formula_cdf ==
    <<70, 40, 120, 41, 32, 61, 32, 92, 98, 101, 103, 105, 110, 123, 99, 97,
    115, 101, 115, 125, 32, 48, 32, 38, 32, 92, 116, 101, 120, 116, 123,
    105, 102, 32, 125, 32, 120, 32, 60, 32, 48, 32, 92, 92, 32, 49, 32, 45,
    32, 101, 94, 123, 45, 92, 108, 97, 109, 98, 100, 97, 32, 120, 125, 32,
    38, 32, 92, 116, 101, 120, 116, 123, 105, 102, 32, 125, 32, 120, 32, 92,
    103, 101, 113, 32, 48, 32, 92, 101, 110, 100, 123, 99, 97, 115, 101,
    115, 125>>

\* exponential.py:33: 'lambda_' has 7 characters
Exponential_lambda__name ==
    <<108, 97, 109, 98, 100, 97, 95>>

\* exponential.py:34: レート (λ) (7 characters)
Exponential_lambda__label ==
    <<12524, 12540, 12488, 32, 40, 955, 41>>

\* exponential.py:35: 単位時間あたりの事象発生率。大きいほど事象が頻繁に発生します。 (31 characters)
Exponential_lambda__description ==
    <<21336, 20301, 26178, 38291, 12354, 12383, 12426, 12398, 20107, 35937,
    30330, 29983, 29575, 12290, 22823, 12365, 12356, 12411, 12393, 20107,
    35937, 12364, 38971, 32321, 12395, 30330, 29983, 12375, 12414, 12377,
    12290>>

\* uniform.py:67: 下限 (a) は上限 (b) より小さくなければなりません (29 characters)
Uniform_bounds_message ==
    <<19979, 38480, 32, 40, 97, 41, 32, 12399, 19978, 38480, 32, 40, 98, 41,
    32, 12424, 12426, 23567, 12373, 12367, 12394, 12369, 12428, 12400,
    12394, 12426, 12414, 12379, 12435>>

\* exponential.py:57: レート (λ) は正の値でなければなりません (22 characters)
Exponential_rate_message ==
    <<12524, 12540, 12488, 32, 40, 955, 41, 32, 12399, 27491, 12398, 20516,
    12391, 12394, 12369, 12428, 12400, 12394, 12426, 12414, 12379, 12435>>

(***************************************************************************)
(* pydantic: a validation error, and the outcome of a call                 *)
(***************************************************************************)
None == [is_none |-> TRUE]

\* one line of a ValidationError: the field, the error type, its context
ErrorDetail(loc, type, ctx) == [loc |-> loc, type |-> type, ctx |-> ctx]

\* the call returned value
Ok(value) == [status |-> "ok", value |-> value, exc |-> "", errors |-> <<>>]

\* the call raised: nothing is returned
Raise(exc, errors) ==
    [status |-> "error", value |-> None, exc |-> exc, errors |-> errors]

\* the validation of the fields so far: info.data and the errors collected
NoFields == [data |-> <<>>, errors |-> <<>>]

\* a field is validated: it joins info.data, or its errors are collected
Field(st, field, value, errs) ==
    IF Len(errs) = 0
    THEN [data |-> (field :> value) @@ st.data, errors |-> st.errors]
    ELSE [data |-> st.data, errors |-> st.errors \o errs]

HasError(r, loc, type) ==
    \E i \in 1..Len(r.errors) : r.errors[i].loc = loc /\ r.errors[i].type = type

\* Field(min_length, max_length) of a str or a list
LengthErrors(loc, v, min_length, max_length) ==
    IF Len(v) < min_length THEN <<ErrorDetail(loc, "too_short", <<>>)>>
    ELSE IF Len(v) > max_length THEN <<ErrorDetail(loc, "too_long", <<>>)>>
    ELSE <<>>

(***************************************************************************)
(* base.py: DistributionParameter                                          *)
(***************************************************************************)
ParamNameMinLen == 1
ParamNameMaxLen == 50
ParamLabelMaxLen == 100
ParamDescriptionMaxLen == 500

IsLetter(c) == c \in 65..90 \/ c \in 97..122
IsDigit(c) == c \in 48..57

\* pattern="^[a-zA-Z_][a-zA-Z0-9_]*$"
NamePattern(s) ==
    /\ Len(s) >= 1
    /\ IsLetter(s[1]) \/ s[1] = 95
    /\ \A i \in 2..Len(s) : IsLetter(s[i]) \/ IsDigit(s[i]) \/ s[i] = 95

NameErrors(name) ==
    LET len == LengthErrors("name", name, ParamNameMinLen, ParamNameMaxLen)
    IN  IF Len(len) > 0 THEN len
        ELSE IF ~NamePattern(name)
        THEN <<ErrorDetail("name", "string_pattern_mismatch", <<>>)>>
        ELSE <<>>

\* @field_validator("default_value"): data is info.data, the fields
\* validated before default_value
validate_default_in_range(v, data) ==
    IF "min_value" \in DOMAIN data /\ "max_value" \in DOMAIN data
    THEN LET min_val == data["min_value"]
             max_val == data["max_value"]
         IN  IF ~(FLe(min_val, v) /\ FLe(v, max_val))
             THEN <<ErrorDetail("default_value", "value_error", <<>>)>>
             ELSE <<>>
    ELSE <<>>

\* step: Field(gt=0)
StepErrors(step) ==
    IF ~FGt(step, 0) THEN <<ErrorDetail("step", "greater_than", <<>>)>>
    ELSE <<>>

\* the comparison taken strict: min_value = max_value passes
validate_min_max_strict(self) ==
    IF FGt(self.min_value, self.max_value)
    THEN Raise("ValidationError", <<ErrorDetail("", "value_error", <<>>)>>)
    ELSE Ok(self)

\* @model_validator(mode="after")
validate_min_max(self) ==
    IF FGe(self.min_value, self.max_value)
    THEN Raise("ValidationError", <<ErrorDetail("", "value_error", <<>>)>>)
    ELSE Ok(self)

\* the fields are validated in the order the class declares them, each
\* seeing in info.data only the fields before it; the model validator runs
\* when no field failed
DistributionParameter(name, label, description, default_value, min_value, max_value, step) ==
    LET f1 == Field(NoFields, "name", name, NameErrors(name))
        f2 == Field(f1, "label", label,
                    LengthErrors("label", label, 1, ParamLabelMaxLen))
        f3 == Field(f2, "description", description,
                    LengthErrors("description", description, 1,
                                 ParamDescriptionMaxLen))
        f4 == Field(f3, "default_value", default_value,
                    validate_default_in_range(default_value, f3.data))
        f5 == Field(f4, "min_value", min_value, <<>>)
        f6 == Field(f5, "max_value", max_value, <<>>)
        f7 == Field(f6, "step", step, StepErrors(step))
    IN  IF Len(f7.errors) > 0 THEN Raise("ValidationError", f7.errors)
        ELSE validate_min_max(
                 [name |-> name, label |-> label, description |-> description,
                  default_value |-> default_value, min_value |-> min_value,
                  max_value |-> max_value, step |-> step])

(***************************************************************************)
(* base.py: DistributionInfo                                               *)
(***************************************************************************)
\* class DistributionType / class CategoryType, by value
DistributionType == {"uniform", "exponential"}
CategoryType ==
    {"continuous", "discrete", "multivariate", "ml_regression",
     "ml_classification", "ml_clustering"}

InfoNameMaxLen == 100
InfoDescriptionMaxLen == 1000
TagsMaxLen == 20
TagMaxChars == 30
ParametersMinLen == 1
ParametersMaxLen == 20

EnumErrors(loc, v, members) ==
    IF v \in members THEN <<>> ELSE <<ErrorDetail(loc, "enum", <<>>)>>

\* number of entries of list v equal to e: v.count(e)
Count(v, e) == Cardinality({i \in 1..Len(v) : v[i] = e})

\* the last of equal keys kept instead of the first
DictFromKeys_last(v) ==
    LET keep[i \in 0..Len(v)] ==
            IF i = 0 THEN <<>>
            ELSE IF \E j \in (i + 1)..Len(v) : v[j] = v[i] THEN keep[i - 1]
            ELSE Append(keep[i - 1], v[i])
    IN  keep[Len(v)]

\* list(dict.fromkeys(v)): the keys in insertion order, the first of equal
\* ones kept
DictFromKeys(v) ==
    LET keep[i \in 0..Len(v)] ==
            IF i = 0 THEN <<>>
            ELSE IF \E j \in 1..(i - 1) : v[j] = v[i] THEN keep[i - 1]
            ELSE Append(keep[i - 1], v[i])
    IN  keep[Len(v)]

\* @field_validator("tags"): the value stored and the errors
validate_tags(v) ==
    IF Len(v) = 0 THEN [value |-> v, errors |-> <<>>]
    ELSE LET unique_tags == DictFromKeys(v)
             bad == {i \in 1..Len(unique_tags) :
                        Len(unique_tags[i]) = 0
                        \/ Len(unique_tags[i]) > TagMaxChars}
         IN  IF bad # {}
             THEN [value |-> v,
                   errors |-> <<ErrorDetail("tags", "value_error",
                       <<unique_tags[CHOOSE i \in bad : \A j \in bad : i <= j]>>)>>]
             ELSE [value |-> unique_tags, errors |-> <<>>]

\* tags: Field(max_length=20) on the list given, then the validator
TagsField(tags) ==
    LET len == LengthErrors("tags", tags, 0, TagsMaxLen)
    IN  IF Len(len) > 0 THEN [value |-> tags, errors |-> len]
        ELSE validate_tags(tags)

\* only the first duplicated name reported
validate_unique_param_names_first(v) ==
    LET names == [i \in 1..Len(v) |-> v[i].name]
    IN  IF Len(names) # Cardinality({names[i] : i \in 1..Len(names)})
        THEN LET duplicates == SelectSeq(names, LAMBDA n : Count(names, n) > 1)
             IN  <<ErrorDetail("parameters", "value_error", <<duplicates[1]>>)>>
        ELSE <<>>

\* @field_validator("parameters"): the errors; their context lists the
\* names that occur more than once, once per occurrence
validate_unique_param_names(v) ==
    LET names == [i \in 1..Len(v) |-> v[i].name]
    IN  IF Len(names) # Cardinality({names[i] : i \in 1..Len(names)})
        THEN LET duplicates == SelectSeq(names, LAMBDA n : Count(names, n) > 1)
             IN  <<ErrorDetail("parameters", "value_error", duplicates)>>
        ELSE <<>>

\* parameters: Field(min_length=1, max_length=20), then the validator
ParametersErrors(parameters) ==
    LET len == LengthErrors("parameters", parameters, ParametersMinLen,
                            ParametersMaxLen)
    IN  IF Len(len) > 0 THEN len ELSE validate_unique_param_names(parameters)

\* formula_cdf is Optional[str]: None or Some(str)
Some(v) == [is_none |-> FALSE, value |-> v]

DistributionInfo(type, name, description, category, tags, formula_pdf, formula_cdf, parameters) ==
    LET t  == TagsField(tags)
        f1 == Field(NoFields, "type", type,
                    EnumErrors("type", type, DistributionType))
        f2 == Field(f1, "name", name,
                    LengthErrors("name", name, 1, InfoNameMaxLen))
        f3 == Field(f2, "description", description,
                    LengthErrors("description", description, 1,
                                 InfoDescriptionMaxLen))
        f4 == Field(f3, "category", category,
                    EnumErrors("category", category, CategoryType))
        f5 == Field(f4, "tags", t.value, t.errors)
        f6 == Field(f5, "formula_pdf", formula_pdf,
                    IF Len(formula_pdf) < 1
                    THEN <<ErrorDetail("formula_pdf", "too_short", <<>>)>>
                    ELSE <<>>)
        f7 == Field(f6, "formula_cdf", formula_cdf, <<>>)
        f8 == Field(f7, "parameters", parameters, ParametersErrors(parameters))
    IN  IF Len(f8.errors) > 0 THEN Raise("ValidationError", f8.errors)
        ELSE Ok([type |-> type, name |-> name, description |-> description,
                 category |-> category, tags |-> t.value,
                 formula_pdf |-> formula_pdf, formula_cdf |-> formula_cdf,
                 parameters |-> parameters])

(***************************************************************************)
(* base.py: DistributionData                                               *)
(***************************************************************************)
ValuesMinLen == 10
ValuesMaxLen == 10000

\* np.isinf left out
validate_no_nan_only(loc, v) ==
    IF \E i \in 1..Len(v) : isnan(v[i])
    THEN <<ErrorDetail(loc, "value_error", <<>>)>>
    ELSE <<>>

\* @field_validator("pdf_values", "cdf_values")
validate_no_nan_inf(loc, v) ==
    IF \E i \in 1..Len(v) : isnan(v[i]) \/ isinf(v[i])
    THEN <<ErrorDetail(loc, "value_error", <<>>)>>
    ELSE <<>>

\* pdf_values, cdf_values: Field(min_length, max_length), then the validator
CheckedValuesErrors(loc, v) ==
    LET len == LengthErrors(loc, v, ValuesMinLen, ValuesMaxLen)
    IN  IF Len(len) > 0 THEN len ELSE validate_no_nan_inf(loc, v)

\* variance, std_dev: Field(ge=0)
GeZeroErrors(loc, v) ==
    IF ~FGe(v, 0) THEN <<ErrorDetail(loc, "greater_than_equal", <<>>)>>
    ELSE <<>>

\* cdf_values left out of the comparison
validate_array_lengths_two(self) ==
    LET lengths == <<Len(self.x_values), Len(self.pdf_values)>>
    IN  IF Cardinality({lengths[i] : i \in 1..2}) # 1
        THEN Raise("ValidationError",
                   <<ErrorDetail("", "value_error", lengths)>>)
        ELSE Ok(self)

\* @model_validator(mode="after"); the context lists the three lengths
validate_array_lengths(self) ==
    LET lengths == <<Len(self.x_values), Len(self.pdf_values),
                     Len(self.cdf_values)>>
    IN  IF Cardinality({lengths[i] : i \in 1..3}) # 1
        THEN Raise("ValidationError",
                   <<ErrorDetail("", "value_error", lengths)>>)
        ELSE Ok(self)

DistributionData(x_values, pdf_values, cdf_values, mean, variance, std_dev) ==
    LET f1 == Field(NoFields, "x_values", x_values,
                    LengthErrors("x_values", x_values, ValuesMinLen,
                                 ValuesMaxLen))
        f2 == Field(f1, "pdf_values", pdf_values,
                    CheckedValuesErrors("pdf_values", pdf_values))
        f3 == Field(f2, "cdf_values", cdf_values,
                    CheckedValuesErrors("cdf_values", cdf_values))
        f4 == Field(f3, "mean", mean, <<>>)
        f5 == Field(f4, "variance", variance, GeZeroErrors("variance", variance))
        f6 == Field(f5, "std_dev", std_dev, GeZeroErrors("std_dev", std_dev))
    IN  IF Len(f6.errors) > 0 THEN Raise("ValidationError", f6.errors)
        ELSE validate_array_lengths(
                 [x_values |-> x_values, pdf_values |-> pdf_values,
                  cdf_values |-> cdf_values, mean |-> mean,
                  variance |-> variance, std_dev |-> std_dev])

(***************************************************************************)
(* numpy and scipy.stats, as uniform.py and exponential.py use them        *)
(***************************************************************************)
\* terms of the series that evaluates exp
ExpTerms == 12

\* np.linspace(start, stop, num): num samples, the first start, the last
\* stop, evenly spaced; a negative num raises ValueError
linspace(start, stop, num) ==
    IF num < 0 THEN [raised |-> TRUE, value |-> <<>>]
    ELSE LET div == num - 1
             delta == stop - start
         IN  [raised |-> FALSE,
              value |-> [i \in 1..num |->
                  IF num > 1 /\ i = num THEN stop
                  ELSE IF div > 0 THEN start + ((i - 1) * delta) \div div
                  ELSE start + (i - 1) * delta]]

\* the largest r in lo..hi with r * r <= v
RECURSIVE SqrtSearch(_, _, _)
SqrtSearch(lo, hi, v) ==
    IF lo >= hi THEN lo
    ELSE LET mid == (lo + hi + 1) \div 2
         IN  IF mid <= v \div mid THEN SqrtSearch(mid, hi, v)
             ELSE SqrtSearch(lo, mid - 1, v)

\* np.sqrt of a finite value >= 0
Sqrt(v) == SqrtSearch(0, v + FScale, v * FScale)

\* exp(y), y >= 0: 1 + y (1 + y/2 (1 + y/3 (...))), from term k on
RECURSIVE ExpSeries(_, _)
ExpSeries(y, k) ==
    IF k > ExpTerms THEN Dec(10)
    ELSE Dec(10) + (y * ExpSeries(y, k + 1)) \div (k * FScale)

\* exp(-y), y >= 0
ExpNeg(y) == FDiv(Dec(10), ExpSeries(y, 1))

\* stats.uniform(loc, scale).pdf(x): 1/scale on the closed support
\* loc <= x <= loc + scale, 0 elsewhere
UniformPdf(x, loc, scale) ==
    IF 0 <= x - loc /\ x - loc <= scale THEN FDiv(Dec(10), scale) ELSE 0

\* stats.uniform(loc, scale).cdf(x): 0 at and below the support, 1 at and
\* above it, (x - loc)/scale inside
UniformCdf(x, loc, scale) ==
    IF x - loc <= 0 THEN 0
    ELSE IF x - loc >= scale THEN Dec(10)
    ELSE FDiv(x - loc, scale)

\* stats.expon(scale).pdf(x): exp(-x/scale)/scale for x >= 0, 0 elsewhere
ExponPdf(x, scale) ==
    IF x >= 0 THEN FDiv(ExpNeg(FDiv(x, scale)), scale) ELSE 0

\* stats.expon(scale).cdf(x): 1 - exp(-x/scale) for x > 0, 0 elsewhere
ExponCdf(x, scale) ==
    IF x > 0 THEN Dec(10) - ExpNeg(FDiv(x, scale)) ELSE 0

\* the statements of calculate, in the order of the source
StepsToCheck == <<"check_params">>
StepsToLinspace == StepsToCheck \o <<"stats_dist", "np.linspace">>
StepsToData ==
    StepsToLinspace
    \o <<"dist.pdf", "dist.cdf", "dist.mean", "dist.var", "dist.std",
         "DistributionData">>

\* what a calculate did: its outcome and the statements it executed
Did(outcome, executed) == [ret |-> outcome, steps |-> executed]

\* np.linspace's ValueError for a negative number of samples
LinspaceError == Raise("ValueError", <<ErrorDetail("num", "value_error", <<>>)>>)

(***************************************************************************)
(* uniform.py: UniformDistribution                                         *)
(***************************************************************************)
Uniform_a_default == Dec(0)
Uniform_a_min == -Dec(100)
Uniform_a_max == Dec(100)
Uniform_a_step == Dec(1)
\* the default of b equal to that of a
Uniform_b_default_zero == Dec(0)
Uniform_b_default == Dec(10)
Uniform_b_min == -Dec(100)
Uniform_b_max == Dec(100)
Uniform_b_step == Dec(1)

\* num_points: int = 1000
Uniform_num_points_default == 1000

UniformGetInfo ==
    LET a == DistributionParameter(Uniform_a_name, Uniform_a_label,
                 Uniform_a_description, Uniform_a_default, Uniform_a_min,
                 Uniform_a_max, Uniform_a_step)
        b == DistributionParameter(Uniform_b_name, Uniform_b_label,
                 Uniform_b_description, Uniform_b_default, Uniform_b_min,
                 Uniform_b_max, Uniform_b_step)
    IN  IF a.status = "error" THEN a
        ELSE IF b.status = "error" THEN b
        ELSE DistributionInfo("uniform", Uniform_name, Uniform_description,
                 "continuous",
                 <<Uniform_tag1, Uniform_tag2, Uniform_tag3, Uniform_tag4>>,
                 Uniform_formula_pdf, Some(Uniform_formula_cdf),
                 <<a.value, b.value>>)

\* if a >= b: raise ValueError
UniformBoundsError ==
    Raise("ValueError", <<ErrorDetail("", "value_error", Uniform_bounds_message)>>)

\* no margin: the samples span [a, b] only
UniformMargin_none(a, b) == 0

\* margin = (b - a) * 0.2
UniformMargin(a, b) == FMul(b - a, Dec(2))

\* the body of calculate after the check of a and b
UniformCurve(a, b, num_points) ==
    LET loc == a
        scale == b - a
        margin == UniformMargin(a, b)
        x == linspace(a - margin, b + margin, num_points)
    IN  IF x.raised THEN Did(LinspaceError, StepsToLinspace)
        ELSE LET pdf == [i \in 1..Len(x.value) |->
                            UniformPdf(x.value[i], loc, scale)]
                 cdf == [i \in 1..Len(x.value) |->
                            UniformCdf(x.value[i], loc, scale)]
                 mean == loc + FMul(scale, Dec(5))
                 variance == FMul(scale, scale) \div 12
                 std_dev == Sqrt(variance)
             IN  Did(DistributionData(x.value, pdf, cdf, mean, variance,
                                      std_dev),
                     StepsToData)

\* the samples placed before the bounds are checked
UniformCalculate_late(a, b, num_points) ==
    IF num_points < 0 THEN Did(LinspaceError, StepsToLinspace)
    ELSE IF FGe(a, b) THEN Did(UniformBoundsError, StepsToCheck)
    ELSE UniformCurve(a, b, num_points)

UniformCalculate(a, b, num_points) ==
    IF FGe(a, b) THEN Did(UniformBoundsError, StepsToCheck)
    ELSE UniformCurve(a, b, num_points)

(***************************************************************************)
(* exponential.py: ExponentialDistribution                                 *)
(***************************************************************************)
Exponential_lambda_default == Dec(10)
Exponential_lambda_min == Dec(1)
Exponential_lambda_max == Dec(100)
Exponential_lambda_step == Dec(1)

\* num_points: int = 1000
Exponential_num_points_default == 1000

ExponentialGetInfo ==
    LET p == DistributionParameter(Exponential_lambda__name,
                 Exponential_lambda__label, Exponential_lambda__description,
                 Exponential_lambda_default, Exponential_lambda_min,
                 Exponential_lambda_max, Exponential_lambda_step)
    IN  IF p.status = "error" THEN p
        ELSE DistributionInfo("exponential", Exponential_name,
                 Exponential_description, "continuous",
                 <<Exponential_tag1, Exponential_tag2, Exponential_tag3,
                   Exponential_tag4>>,
                 Exponential_formula_pdf, Some(Exponential_formula_cdf),
                 <<p.value>>)

\* if lambda_ <= 0: raise ValueError
ExponentialRateError ==
    Raise("ValueError", <<ErrorDetail("", "value_error", Exponential_rate_message)>>)

\* x_max = mean_val * 5, mean_val = 1 / lambda_
ExponentialXMax(lambda_) == FDiv(Dec(10), lambda_) * 5

\* the body of calculate after the check of lambda_
ExponentialCurve(lambda_, num_points) ==
    LET scale == FDiv(Dec(10), lambda_)
        x == linspace(0, ExponentialXMax(lambda_), num_points)
    IN  IF x.raised THEN Did(LinspaceError, StepsToLinspace)
        ELSE LET pdf == [i \in 1..Len(x.value) |-> ExponPdf(x.value[i], scale)]
                 cdf == [i \in 1..Len(x.value) |-> ExponCdf(x.value[i], scale)]
                 mean == scale
                 variance == FMul(scale, scale)
                 std_dev == Sqrt(variance)
             IN  Did(DistributionData(x.value, pdf, cdf, mean, variance,
                                      std_dev),
                     StepsToData)

ExponentialCalculate(lambda_, num_points) ==
    IF FLe(lambda_, 0) THEN Did(ExponentialRateError, StepsToCheck)
    ELSE ExponentialCurve(lambda_, num_points)

(***************************************************************************)
(* The calls.  A behaviour starts with a caller's call, its arguments      *)
(* chosen and nothing returned yet; the one step of the behaviour runs the *)
(* callee to its end.                                                      *)
(***************************************************************************)
VARIABLES call, ret, steps
vars == <<call, ret, steps>>

\* nothing has returned yet
Pending == [status |-> "none"]

\* all sequences over S of length at most n
SeqsUpTo(S, n) == UNION {[1..k -> S] : k \in 0..n}

\* the float arguments offered to a constructor or a calculate
ParamValues == {Dec(k) : k \in -ParamRange..ParamRange}

\* a str of n characters
Chars(n) == [i \in 1..n |-> 120]

\* ---- DistributionParameter(...) ----------------------------------------
NameInputs == {Uniform_a_name, Exponential_lambda__name, <<>>, <<49, 97>>}
LabelInputs == {Uniform_a_label, <<>>}
StepInputs == {0, Dec(1)}

ParameterCalls ==
    {[op |-> "DistributionParameter", name |-> name, label |-> label,
      description |-> Uniform_a_description, default_value |-> default_value,
      min_value |-> min_value, max_value |-> max_value, step |-> step] :
        name \in NameInputs, label \in LabelInputs, step \in StepInputs,
        default_value \in ParamValues, min_value \in ParamValues,
        max_value \in ParamValues}

NewDistributionParameter ==
    /\ call.op = "DistributionParameter" /\ ret = Pending
    /\ ret' = DistributionParameter(call.name, call.label, call.description,
                                    call.default_value, call.min_value,
                                    call.max_value, call.step)
    /\ steps' = <<"DistributionParameter">>
    /\ UNCHANGED call

\* ---- DistributionInfo(...) ---------------------------------------------
\* a valid parameter named name
Parameter(name) ==
    DistributionParameter(name, Uniform_a_label, Uniform_a_description,
                          Dec(0), -Dec(100), Dec(100), Dec(1)).value

\* n tags, pairwise distinct, of one character each
DistinctTags(n) == [i \in 1..n |-> <<96 + i>>]

\* n parameters with pairwise distinct names
DistinctParameters(n) == [i \in 1..n |-> Parameter(<<112, 96 + i>>)]

TagPool ==
    {Uniform_tag1, Uniform_tag4, <<>>, Chars(TagMaxChars),
     Chars(TagMaxChars + 1)}

TagsInputs ==
    SeqsUpTo(TagPool, MaxListLen)
    \cup {DistinctTags(TagsMaxLen), DistinctTags(TagsMaxLen + 1),
          [i \in 1..TagsMaxLen |-> Uniform_tag1],
          [i \in 1..(TagsMaxLen + 1) |-> Uniform_tag1],
          Append(DistinctTags(TagsMaxLen), <<97>>),
          <<Uniform_tag1, Uniform_tag2, Uniform_tag1, Uniform_tag3,
            Uniform_tag2>>}

ParameterPool ==
    {Parameter(Uniform_a_name), Parameter(Uniform_b_name),
     Parameter(Exponential_lambda__name)}

ParametersInputs ==
    SeqsUpTo(ParameterPool, MaxListLen)
    \cup {DistinctParameters(ParametersMaxLen),
          DistinctParameters(ParametersMaxLen + 1),
          Append(DistinctParameters(ParametersMaxLen - 1),
                 Parameter(<<112, 97>>)),
          Append(DistinctParameters(ParametersMaxLen), Parameter(<<112, 97>>)),
          <<Parameter(Uniform_a_name), Parameter(Uniform_b_name),
            Parameter(Uniform_a_name), Parameter(Exponential_lambda__name),
            Parameter(Uniform_b_name)>>}

TypeInputs == {"uniform", "normal"}
FormulaCdfInputs == {None, Some(Uniform_formula_cdf)}

InfoCalls ==
    {[op |-> "DistributionInfo", type |-> type, name |-> Uniform_name,
      description |-> Uniform_description, category |-> "continuous",
      tags |-> tags, formula_pdf |-> Uniform_formula_pdf,
      formula_cdf |-> formula_cdf, parameters |-> parameters] :
        type \in TypeInputs, tags \in TagsInputs,
        formula_cdf \in FormulaCdfInputs, parameters \in ParametersInputs}

NewDistributionInfo ==
    /\ call.op = "DistributionInfo" /\ ret = Pending
    /\ ret' = DistributionInfo(call.type, call.name, call.description,
                               call.category, call.tags, call.formula_pdf,
                               call.formula_cdf, call.parameters)
    /\ steps' = <<"DistributionInfo">>
    /\ UNCHANGED call

\* ---- DistributionData(...) ---------------------------------------------
\* len finite values
Finite(len) == [i \in 1..len |-> Dec(i)]

\* len values, the one at pos being v
With(len, pos, v) == [i \in 1..len |-> IF i = pos THEN v ELSE Dec(i)]

ShortLens == {ValuesMinLen - 1, ValuesMinLen, ValuesMinLen + 1}
LongLens == {ValuesMaxLen, ValuesMaxLen + 1}

XInputs ==
    UNION {{Finite(len), With(len, 1, NaN), With(len, len, PosInf)} :
              len \in ShortLens}

CheckedInputs ==
    UNION {{Finite(len)}
           \cup {With(len, pos, v) : pos \in {1, len},
                                     v \in {NaN, PosInf, NegInf}} :
              len \in ShortLens}

LongInputs == {Finite(len) : len \in LongLens}

\* variance and std_dev
MomentInputs == {<<0, 0>>, <<-1, 0>>, <<Dec(40), -Dec(20)>>}

DataCallsOver(X, V) ==
    {[op |-> "DistributionData", x_values |-> x, pdf_values |-> pdf,
      cdf_values |-> cdf, mean |-> Dec(5), variance |-> m[1],
      std_dev |-> m[2]] :
        x \in X, pdf \in V, cdf \in V, m \in MomentInputs}

\* the short arrays in every combination, and the longest ones
DataCalls ==
    DataCallsOver(XInputs, CheckedInputs)
    \cup DataCallsOver(LongInputs, LongInputs)

NewDistributionData ==
    /\ call.op = "DistributionData" /\ ret = Pending
    /\ ret' = DistributionData(call.x_values, call.pdf_values,
                               call.cdf_values, call.mean, call.variance,
                               call.std_dev)
    /\ steps' = <<"DistributionData">>
    /\ UNCHANGED call

\* ---- get_info() --------------------------------------------------------
UniformGetInfoCall ==
    /\ call.op = "UniformDistribution.get_info" /\ ret = Pending
    /\ ret' = UniformGetInfo
    /\ steps' = <<"DistributionParameter", "DistributionParameter",
                  "DistributionInfo">>
    /\ UNCHANGED call

ExponentialGetInfoCall ==
    /\ call.op = "ExponentialDistribution.get_info" /\ ret = Pending
    /\ ret' = ExponentialGetInfo
    /\ steps' = <<"DistributionParameter", "DistributionInfo">>
    /\ UNCHANGED call

GetInfoCalls ==
    {[op |-> op] : op \in {"UniformDistribution.get_info",
                           "ExponentialDistribution.get_info"}}

\* ---- calculate(...) ----------------------------------------------------
\* num_points as the caller gives it, or not at all
NumPointsValues ==
    {-1, 0, 1, ValuesMinLen - 1, ValuesMinLen, ValuesMinLen + 1, ValuesMaxLen,
     ValuesMaxLen + 1}
NumPointsInputs ==
    {[given |-> FALSE, value |-> 0]}
    \cup {[given |-> TRUE, value |-> n] : n \in NumPointsValues}

\* the values offered for a, b and lambda_: the bounded range and the
\* defaults get_info publishes
UniformInputs == ParamValues \cup {Uniform_a_default, Uniform_b_default}
ExponentialInputs == ParamValues \cup {Exponential_lambda_default}

UniformCalculateCalls ==
    {[op |-> "UniformDistribution.calculate", a |-> a, b |-> b,
      num_points |-> n] :
        a \in UniformInputs, b \in UniformInputs, n \in NumPointsInputs}

ExponentialCalculateCalls ==
    {[op |-> "ExponentialDistribution.calculate", lambda_ |-> lambda_,
      num_points |-> n] :
        lambda_ \in ExponentialInputs, n \in NumPointsInputs}

UniformCalculateCall ==
    /\ call.op = "UniformDistribution.calculate" /\ ret = Pending
    /\ LET num_points == IF call.num_points.given THEN call.num_points.value
                         ELSE Uniform_num_points_default
           did == UniformCalculate(call.a, call.b, num_points)
       IN  /\ ret' = did.ret
           /\ steps' = did.steps
    /\ UNCHANGED call

ExponentialCalculateCall ==
    /\ call.op = "ExponentialDistribution.calculate" /\ ret = Pending
    /\ LET num_points == IF call.num_points.given THEN call.num_points.value
                         ELSE Exponential_num_points_default
           did == ExponentialCalculate(call.lambda_, num_points)
       IN  /\ ret' = did.ret
           /\ steps' = did.steps
    /\ UNCHANGED call

InitSchema ==
    /\ \/ call \in ParameterCalls
       \/ call \in InfoCalls
       \/ call \in DataCalls
    /\ ret = Pending
    /\ steps = <<>>

Init ==
    /\ \/ call \in ParameterCalls
       \/ call \in InfoCalls
       \/ call \in DataCalls
       \/ call \in GetInfoCalls
       \/ call \in UniformCalculateCalls
       \/ call \in ExponentialCalculateCalls
    /\ ret = Pending
    /\ steps = <<>>

Next ==
    \/ NewDistributionParameter
    \/ NewDistributionInfo
    \/ NewDistributionData
    \/ UniformGetInfoCall
    \/ ExponentialGetInfoCall
    \/ UniformCalculateCall
    \/ ExponentialCalculateCall

Spec == Init /\ [][Next]_vars

\* the three schema constructors alone
NextSchema ==
    \/ NewDistributionParameter
    \/ NewDistributionInfo
    \/ NewDistributionData

SchemaSpec == InitSchema /\ [][NextSchema]_vars

(***************************************************************************)
(* Vocabulary of the properties                                            *)
(***************************************************************************)
\* the call has ended: it returned, or it raised
Ended == ret # Pending
Returned == ret.status = "ok"
Failed == ret.status = "error"

\* the elements of a list
Elems(v) == {v[i] : i \in 1..Len(v)}

\* ret carries an error at field loc
ErrorAt(loc) == \E i \in 1..Len(ret.errors) : ret.errors[i].loc = loc

InRange(n, lo, hi) == lo <= n /\ n <= hi

\* a calculate of either kind has ended
IsUniformCalculate == call.op = "UniformDistribution.calculate" /\ Ended
IsExponentialCalculate ==
    call.op = "ExponentialDistribution.calculate" /\ Ended
IsCalculate == IsUniformCalculate \/ IsExponentialCalculate

\* the sample count a calculate call stands for: 1000 when omitted
SampleCount == IF call.num_points.given THEN call.num_points.value ELSE 1000

\* the parameters of a calculate call are in the distribution's domain
ValidParams ==
    \/ IsUniformCalculate /\ call.a < call.b
    \/ IsExponentialCalculate /\ call.lambda_ > 0

\* ret is the ValueError with message msg
IsDomainError(msg) ==
    /\ Failed
    /\ ret.exc = "ValueError"
    /\ Len(ret.errors) = 1
    /\ ret.errors[1].ctx = msg

(***************************************************************************)
(* DistributionParameter: C1, C2                                           *)
(***************************************************************************)
IsNewParameter == call.op = "DistributionParameter" /\ Ended

\* name, label, description and step of the call are valid
OtherParameterFieldsValid ==
    /\ call.name \in {Uniform_a_name, Exponential_lambda__name}
    /\ InRange(Len(call.label), 1, 100)
    /\ InRange(Len(call.description), 1, 500)
    /\ call.step > 0

\* C1: a DistributionParameter whose default_value lies outside
\* [min_value, max_value], with min_value < max_value and the other fields
\* valid, is never constructed: the construction fails.
C1_DefaultOutOfRangeFails ==
    (/\ IsNewParameter
     /\ OtherParameterFieldsValid
     /\ call.min_value < call.max_value
     /\ \/ call.default_value < call.min_value
        \/ call.default_value > call.max_value)
    => Failed

\* C2: with the other fields valid, construction succeeds whenever
\* min_value < max_value and min_value <= default_value <= max_value, and
\* fails whenever min_value >= max_value (equality included); what is
\* stored is what was supplied, unclamped.
C2_MinMaxDecidesConstruction ==
    (IsNewParameter /\ OtherParameterFieldsValid)
    => /\ (/\ call.min_value < call.max_value
           /\ call.min_value <= call.default_value
           /\ call.default_value <= call.max_value) => Returned
       /\ call.min_value >= call.max_value => Failed
       /\ Returned => /\ ret.value.min_value = call.min_value
                      /\ ret.value.max_value = call.max_value
                      /\ ret.value.default_value = call.default_value

\* a parameter whose default sits on its lower bound is constructed
C2_Witness ==
    /\ IsNewParameter
    /\ OtherParameterFieldsValid
    /\ call.min_value < call.max_value
    /\ call.default_value = call.min_value
    /\ Returned
    /\ ret.value.default_value = call.min_value

(***************************************************************************)
(* DistributionInfo: C3, C9                                                *)
(***************************************************************************)
IsNewInfo == call.op = "DistributionInfo" /\ Ended

\* the names of the parameters given, in order
GivenNames == [i \in 1..Len(call.parameters) |-> call.parameters[i].name]

\* the names more than one of the parameters given carry
DuplicatedNames ==
    {GivenNames[i] : i \in {k \in 1..Len(GivenNames) :
        \E j \in 1..Len(GivenNames) : j # k /\ GivenNames[j] = GivenNames[k]}}

\* the names the failure reports as duplicated
ReportedNames ==
    UNION {Elems(ret.errors[i].ctx) :
              i \in {k \in 1..Len(ret.errors) :
                        /\ ret.errors[k].loc = "parameters"
                        /\ ret.errors[k].type = "value_error"}}

\* the uniqueness check rejected the parameters
RejectedAsDuplicate ==
    \E i \in 1..Len(ret.errors) :
        ret.errors[i].loc = "parameters" /\ ret.errors[i].type = "value_error"

\* the original statement of C3: whatever the list, equal names make the
\* construction fail with every duplicated name reported.
C3_DuplicateNamesAlwaysReported ==
    (IsNewInfo /\ DuplicatedNames # {})
    => Failed /\ DuplicatedNames \subseteq ReportedNames

\* C3, amended: a parameter list with equal names always fails; when the
\* list has at most 20 entries the failure reports exactly the duplicated
\* names, and a longer list fails on its length with no name reported.
\* Pairwise-distinct names are not rejected by the uniqueness check, and a
\* successful construction keeps the parameters in the order given.
C3_DuplicateNamesReportedWithinLength ==
    IsNewInfo
    => /\ DuplicatedNames # {}
          => /\ Failed
             /\ Len(call.parameters) <= 20 => ReportedNames = DuplicatedNames
             /\ Len(call.parameters) > 20
                => ReportedNames = {} /\ HasError(ret, "parameters", "too_long")
       /\ DuplicatedNames = {} => ~RejectedAsDuplicate
       /\ Returned => ret.value.parameters = call.parameters

\* two names, each given twice among five parameters, are both reported
C3_Witness ==
    /\ IsNewInfo
    /\ Len(call.parameters) = 5
    /\ Cardinality(DuplicatedNames) = 2
    /\ Failed
    /\ ReportedNames = DuplicatedNames

\* the distinct tags given
GivenTags == Elems(call.tags)

EveryTagWellSized == \A t \in GivenTags : InRange(Len(t), 1, 30)

\* the fields of the call other than tags are valid
OtherInfoFieldsValid ==
    /\ call.type \in {"uniform", "exponential"}
    /\ InRange(Len(call.parameters), 1, 20)
    /\ DuplicatedNames = {}

\* position of the first occurrence of t in v
FirstIndex(v, t) == CHOOSE i \in 1..Len(v) : v[i] = t /\ \A j \in 1..(i - 1) : v[j] # t

\* s holds exactly the distinct entries of v, in the order v first shows them
IsFirstSeenOrder(s, v) ==
    /\ Elems(s) = Elems(v)
    /\ \A i, j \in 1..Len(s) :
          i < j => s[i] # s[j] /\ FirstIndex(v, s[i]) < FirstIndex(v, s[j])

\* the tags are stored de-duplicated in first-seen order, and validating
\* the stored list again changes nothing
TagsNormalized ==
    /\ IsFirstSeenOrder(ret.value.tags, call.tags)
    /\ validate_tags(ret.value.tags) = [value |-> ret.value.tags, errors |-> <<>>]

\* the original statement of C9: at most 20 distinct tags, each of 1 to 30
\* characters, are accepted however often they repeat.
C9_DistinctTagsAccepted ==
    (/\ IsNewInfo
     /\ EveryTagWellSized
     /\ Cardinality(GivenTags) <= 20)
    => /\ ~ErrorAt("tags")
       /\ OtherInfoFieldsValid => Returned /\ TagsNormalized

\* C9, amended: a tag list of at most 20 entries, duplicates counted, whose
\* tags have 1 to 30 characters each, is accepted and stored de-duplicated
\* in first-seen order (the other fields valid), re-validation leaving it
\* unchanged; the construction fails if a tag is empty or longer than 30
\* characters, or if the list given has more than 20 entries.
C9_TagsNormalizedWithinLength ==
    IsNewInfo
    => /\ (EveryTagWellSized /\ Len(call.tags) <= 20)
          => /\ ~ErrorAt("tags")
             /\ OtherInfoFieldsValid => Returned /\ TagsNormalized
       /\ Returned => TagsNormalized
       /\ ~EveryTagWellSized => Failed
       /\ Len(call.tags) > 20 => HasError(ret, "tags", "too_long")

\* five tags, three of them distinct, are stored as three
C9_Witness ==
    /\ IsNewInfo
    /\ Len(call.tags) = 5
    /\ Returned
    /\ Len(ret.value.tags) = 3
    /\ TagsNormalized

(***************************************************************************)
(* DistributionData: C4, C5                                                *)
(***************************************************************************)
IsNewData == call.op = "DistributionData" /\ Ended

\* a DistributionData exists: a constructor call or a calculate returned it
DataExists == (IsNewData \/ IsCalculate) /\ Returned

IsFinite(v) == v # NaN /\ v # PosInf /\ v # NegInf
AllFinite(v) == \A i \in 1..Len(v) : IsFinite(v[i])

\* the error the length bound of field loc raises for a list of length n
LengthBoundEnforced(loc, n) ==
    /\ n < 10 => HasError(ret, loc, "too_short")
    /\ n > 10000 => HasError(ret, loc, "too_long")

\* C4: every DistributionData that exists has three arrays of one common
\* length, between 10 and 10000; a construction in which two of the three
\* lengths differ fails; and each field's length bound is enforced on its
\* own, whether or not the three lengths agree.
C4_ArrayLengthsConsistent ==
    /\ DataExists
       => /\ Len(ret.value.x_values) = Len(ret.value.pdf_values)
          /\ Len(ret.value.pdf_values) = Len(ret.value.cdf_values)
          /\ InRange(Len(ret.value.x_values), 10, 10000)
    /\ IsNewData
       => /\ (\/ Len(call.x_values) # Len(call.pdf_values)
              \/ Len(call.pdf_values) # Len(call.cdf_values)
              \/ Len(call.x_values) # Len(call.cdf_values)) => Failed
          /\ LengthBoundEnforced("x_values", Len(call.x_values))
          /\ LengthBoundEnforced("pdf_values", Len(call.pdf_values))
          /\ LengthBoundEnforced("cdf_values", Len(call.cdf_values))

\* arrays within the length bound, only the third of another length, are
\* rejected
C4_Witness ==
    /\ IsNewData
    /\ Len(call.x_values) = 10
    /\ Len(call.pdf_values) = 10
    /\ Len(call.cdf_values) = 11
    /\ AllFinite(call.pdf_values) /\ AllFinite(call.cdf_values)
    /\ call.variance >= 0 /\ call.std_dev >= 0
    /\ Failed

\* everything of a DistributionData call but the content of x_values is valid
ValidButForX ==
    /\ Len(call.x_values) = Len(call.pdf_values)
    /\ Len(call.pdf_values) = Len(call.cdf_values)
    /\ InRange(Len(call.x_values), 10, 10000)
    /\ AllFinite(call.pdf_values) /\ AllFinite(call.cdf_values)
    /\ call.variance >= 0 /\ call.std_dev >= 0

\* C5: a construction with a NaN, +inf or -inf among pdf_values or
\* cdf_values fails, so no DistributionData that exists, a calculate's
\* result included, holds one; a non-finite entry of x_values alone does
\* not make the construction fail; and a failure returns nothing.
C5_NonFiniteValuesRejected ==
    /\ IsNewData
       => /\ ~(AllFinite(call.pdf_values) /\ AllFinite(call.cdf_values))
             => Failed
          /\ ValidButForX => Returned /\ ret.value.x_values = call.x_values
    /\ DataExists
       => AllFinite(ret.value.pdf_values) /\ AllFinite(ret.value.cdf_values)
    /\ Failed => ret.value = None

\* a NaN among x_values, all else valid, is accepted
C5_Witness ==
    /\ IsNewData
    /\ ValidButForX
    /\ ~AllFinite(call.x_values)
    /\ Returned
    /\ ~AllFinite(ret.value.x_values)

(***************************************************************************)
(* calculate: C6, C7, C8, C10                                              *)
(***************************************************************************)
Executed(step) == step \in Elems(steps)

\* np.linspace returned an array, and the density was computed on it
ArrayBuilt == Executed("dist.pdf")

\* C6: with valid parameters, a sample count outside [10, 10000] makes
\* calculate fail before any array is built, nothing being returned; a
\* sample count inside makes it return three arrays of that many entries;
\* an omitted sample count stands for 1000.
C6_SampleCountCheckedBeforeUse ==
    (IsCalculate /\ ValidParams)
    => /\ ~InRange(SampleCount, 10, 10000)
          => /\ Failed
             /\ ret.value = None
             /\ ~ArrayBuilt
       /\ InRange(SampleCount, 10, 10000)
          => /\ Returned
             /\ Len(ret.value.x_values) = SampleCount
             /\ Len(ret.value.pdf_values) = SampleCount
             /\ Len(ret.value.cdf_values) = SampleCount

\* C7: calculate checks its parameters first.  Uniform(a, b) passes the
\* check iff a < b, Exponential(lambda_) iff lambda_ > 0; a call that does
\* not pass raises the distribution's ValueError having executed nothing
\* but the check: no array is built and no DistributionData validated,
\* whatever the sample count, valid or not.
C7_ParametersCheckedFirst ==
    /\ IsUniformCalculate
       => /\ call.a >= call.b
             => IsDomainError(Uniform_bounds_message) /\ steps = <<"check_params">>
          /\ call.a < call.b
             => ~IsDomainError(Uniform_bounds_message) /\ Executed("np.linspace")
    /\ IsExponentialCalculate
       => /\ call.lambda_ <= 0
             => IsDomainError(Exponential_rate_message) /\ steps = <<"check_params">>
          /\ call.lambda_ > 0
             => ~IsDomainError(Exponential_rate_message) /\ Executed("np.linspace")

\* a >= b together with a sample count out of range raises the ValueError
\* of the bounds
C7_Witness ==
    /\ IsUniformCalculate
    /\ call.a >= call.b
    /\ ~InRange(SampleCount, 10, 10000)
    /\ IsDomainError(Uniform_bounds_message)
    /\ steps = <<"check_params">>

\* the cumulative values do not decrease along x and stay within [0, 1]
CdfMonotoneWithinUnit ==
    LET x == ret.value.x_values
        cdf == ret.value.cdf_values
    IN  /\ \A i \in 1..Len(cdf) : 0 <= cdf[i] /\ cdf[i] <= Dec(10)
        /\ \A i \in 1..(Len(cdf) - 1) : x[i] <= x[i + 1] /\ cdf[i] <= cdf[i + 1]

IsGetInfo ==
    /\ call.op \in {"UniformDistribution.get_info",
                    "ExponentialDistribution.get_info"}
    /\ Ended

\* the default_value the metadata info publishes for the parameter name
PublishedDefault(info, name) ==
    LET ps == info.value.parameters
    IN  ps[CHOOSE i \in 1..Len(ps) : ps[i].name = name].default_value

\* C10: get_info returns metadata whose parameter names are pairwise
\* distinct and whose parameters each have min_value < max_value and
\* min_value <= default_value <= max_value; calculate called with every
\* parameter at its published default (and a sample count in range, or
\* none) passes the parameter check and returns a result.
C10_DefaultsAreComputable ==
    /\ IsGetInfo
       => /\ Returned
          /\ LET ps == ret.value.parameters
             IN  \A i \in 1..Len(ps) :
                    /\ \A j \in 1..Len(ps) : ps[i].name = ps[j].name => i = j
                    /\ ps[i].min_value < ps[i].max_value
                    /\ ps[i].min_value <= ps[i].default_value
                    /\ ps[i].default_value <= ps[i].max_value
    /\ (/\ IsUniformCalculate
        /\ call.a = PublishedDefault(UniformGetInfo, Uniform_a_name)
        /\ call.b = PublishedDefault(UniformGetInfo, Uniform_b_name)
        /\ InRange(SampleCount, 10, 10000))
       => Returned /\ Executed("DistributionData")
    /\ (/\ IsExponentialCalculate
        /\ call.lambda_
           = PublishedDefault(ExponentialGetInfo, Exponential_lambda__name)
        /\ InRange(SampleCount, 10, 10000))
       => Returned /\ Executed("DistributionData")

\* Uniform(0, 1) with the sample count omitted returns 1000 samples
C10_Witness ==
    /\ IsUniformCalculate
    /\ call.a = PublishedDefault(UniformGetInfo, Uniform_a_name)
    /\ call.b = PublishedDefault(UniformGetInfo, Uniform_b_name)
    /\ ~call.num_points.given
    /\ Returned
    /\ Len(ret.value.x_values) = 1000

====
